---- MODULE Spec2Model ----
(***************************************************************************)
(* Marketing KPI Dashboard Generator (src/marketing_kpi_app.py).           *)
(*                                                                         *)
(* The module models                                                       *)
(*   - calculate_status and get_status_color (pure functions),             *)
(*   - create_powerpoint: the table slide built from a DataFrame,          *)
(*   - the two tabs of main(): the Excel upload path and the manual-entry  *)
(*     path with its st.session_state.manual_data list.                    *)
(*                                                                         *)
(* Numbers are whole numbers; the 10% band of calculate_status is taken in *)
(* exact arithmetic (actual >= benchmark * 0.9 as 10*actual >= 9*benchmark *)
(* and actual <= benchmark * 1.1 as 10*actual <= 11*benchmark).            *)
(***************************************************************************)
EXTENDS Integers, Sequences, FiniteSets, TLC

VARIABLES
    args,           \* the (actual, benchmark, direction) handed to calculate_status
    result,         \* what calculate_status returned for args ("pending" before the call)
    uploaded_file,  \* st.file_uploader's value in the upload tab
    company_name,   \* the sidebar text input
    manual_data,    \* st.session_state.manual_data
    log,            \* the manual-entry events handled so far, oldest first
    shown,          \* what the current script run displays: message and presentation
    renders         \* the most recent calls of create_powerpoint from the manual
                    \* tab, oldest first

vars == <<args, result, uploaded_file, company_name, manual_data, log,
          shown, renders>>

(***************************************************************************)
(* Bounds of the model.                                                    *)
(***************************************************************************)
MaxVal == 22        \* calculate_status is probed on -MaxVal..MaxVal
MaxSheetRows == 3   \* rows of an uploaded sheet
MaxEvents == 4      \* manual-entry events (Add KPI submissions, Clear All Data)
MaxRenders == 2     \* calls of create_powerpoint that are remembered

(***************************************************************************)
(* Absent values.  NaN stands for numpy's nan / None in a numeric cell; it *)
(* lies outside every range of numbers the model draws from.  NaNText is   *)
(* an empty cell of a text column.                                         *)
(***************************************************************************)
NaN == -1000
NaNText == "<NaN>"

pd_isna(x) == x = NaN

pd_isna_text(s) == s = NaNText

(***************************************************************************)
(* calculate_status, lines 18-37.                                          *)
(***************************************************************************)
\* mutant: the lower edge of the Yellow band is exclusive
calculate_status_open_band(actual, benchmark, direction) ==
    IF pd_isna(actual) \/ pd_isna(benchmark) THEN "Gray"
    ELSE IF direction = "HigherIsBetter" THEN
        IF actual >= benchmark THEN "Green"
        ELSE IF 10 * actual > 9 * benchmark THEN "Yellow"
        ELSE "Red"
    ELSE IF direction = "LowerIsBetter" THEN
        IF actual <= benchmark THEN "Green"
        ELSE IF 10 * actual < 11 * benchmark THEN "Yellow"
        ELSE "Red"
    ELSE "Gray"

\* mutant: the direction is examined before the absence of a value
calculate_status_direction_first(actual, benchmark, direction) ==
    IF direction = "HigherIsBetter" THEN
        IF actual >= benchmark THEN "Green"
        ELSE IF 10 * actual >= 9 * benchmark THEN "Yellow"
        ELSE "Red"
    ELSE IF direction = "LowerIsBetter" THEN
        IF actual <= benchmark THEN "Green"
        ELSE IF 10 * actual <= 11 * benchmark THEN "Yellow"
        ELSE "Red"
    ELSE IF pd_isna(actual) \/ pd_isna(benchmark) THEN "Gray"
    ELSE "Red"

\* mutant: the tolerance is an absolute margin of one unit
calculate_status_absolute_margin(actual, benchmark, direction) ==
    IF pd_isna(actual) \/ pd_isna(benchmark) THEN "Gray"
    ELSE IF direction = "HigherIsBetter" THEN
        IF actual >= benchmark THEN "Green"
        ELSE IF actual >= benchmark - 1 THEN "Yellow"
        ELSE "Red"
    ELSE IF direction = "LowerIsBetter" THEN
        IF actual <= benchmark THEN "Green"
        ELSE IF actual <= benchmark + 1 THEN "Yellow"
        ELSE "Red"
    ELSE "Gray"

\* mutant: the tolerance is 10% of the benchmark's magnitude
calculate_status_abs_band(actual, benchmark, direction) ==
    LET mag == IF benchmark < 0 THEN -benchmark ELSE benchmark IN
    IF pd_isna(actual) \/ pd_isna(benchmark) THEN "Gray"
    ELSE IF direction = "HigherIsBetter" THEN
        IF actual >= benchmark THEN "Green"
        ELSE IF 10 * actual >= 10 * benchmark - mag THEN "Yellow"
        ELSE "Red"
    ELSE IF direction = "LowerIsBetter" THEN
        IF actual <= benchmark THEN "Green"
        ELSE IF 10 * actual <= 10 * benchmark + mag THEN "Yellow"
        ELSE "Red"
    ELSE "Gray"

calculate_status(actual, benchmark, direction) ==
    IF pd_isna(actual) \/ pd_isna(benchmark) THEN "Gray"
    ELSE IF direction = "HigherIsBetter" THEN
        IF actual >= benchmark THEN "Green"
        ELSE IF 10 * actual >= 9 * benchmark THEN "Yellow"
        ELSE "Red"
    ELSE IF direction = "LowerIsBetter" THEN
        IF actual <= benchmark THEN "Green"
        ELSE IF 10 * actual <= 11 * benchmark THEN "Yellow"
        ELSE "Red"
    ELSE "Gray"

(***************************************************************************)
(* get_status_color, lines 39-47.  RGBColor(r, g, b) is the triple.        *)
(***************************************************************************)
RGBColor(r, g, b) == <<r, g, b>>

get_status_color(status) ==
    CASE status = "Green"  -> RGBColor(34, 139, 34)
      [] status = "Yellow" -> RGBColor(255, 165, 0)
      [] status = "Red"    -> RGBColor(220, 20, 60)
      [] status = "Gray"   -> RGBColor(128, 128, 128)
      [] OTHER             -> RGBColor(128, 128, 128)

(***************************************************************************)
(* str(): the text written into a cell, lines 107-111.  A number's text is *)
(* its decimal form, with ".0" when the column is float64 and "nan" when   *)
(* the value is absent; a text value is written as it is, an absent one as *)
(* "nan".                                                                  *)
(***************************************************************************)
Digit(d) ==
    CASE d = 0 -> "0" [] d = 1 -> "1" [] d = 2 -> "2" [] d = 3 -> "3" [] d = 4 -> "4"
      [] d = 5 -> "5" [] d = 6 -> "6" [] d = 7 -> "7" [] d = 8 -> "8" [] d = 9 -> "9"

RECURSIVE NatStr(_)
NatStr(n) == IF n < 10 THEN Digit(n) ELSE NatStr(n \div 10) \o Digit(n % 10)

IntStr(n) == IF n < 0 THEN "-" \o NatStr(-n) ELSE NatStr(n)

str_number(v, dtype) ==
    IF pd_isna(v) THEN "nan"
    ELSE IF dtype = "float64" THEN IntStr(v) \o ".0"
    ELSE IntStr(v)

str_text(s) == IF pd_isna_text(s) THEN "nan" ELSE s

(***************************************************************************)
(* DataFrames.  A frame is its index labels, its rows (in iteration order) *)
(* and the dtypes of its two numeric columns.                              *)
(***************************************************************************)
RangeIndex(n) == [k \in 1..n |-> k - 1]

\* pandas reads a numeric column holding an empty cell, and any column of
\* Python floats, as float64; a column of whole numbers as int64
column_dtype(values) ==
    IF \E k \in DOMAIN values : pd_isna(values[k]) THEN "float64" ELSE "int64"

\* df.apply(lambda row: calculate_status(...), axis=1) stored as column Status,
\* lines 172-175 and 250-253
add_status_column(df) ==
    [df EXCEPT !.rows = [k \in DOMAIN df.rows |->
        [Campaign_Type |-> df.rows[k].Campaign_Type,
         KPI_Name      |-> df.rows[k].KPI_Name,
         Benchmark     |-> df.rows[k].Benchmark,
         Actual        |-> df.rows[k].Actual,
         Direction     |-> df.rows[k].Direction,
         Status        |-> calculate_status(df.rows[k].Actual, df.rows[k].Benchmark,
                                            df.rows[k].Direction)]]]

(***************************************************************************)
(* create_powerpoint, lines 49-127.  A presentation is its slides; a slide *)
(* is its title text, subtitle text and table; a table maps a row index    *)
(* and a column index (both from 0) to a cell; a cell is its text and its  *)
(* fill.  Fonts, sizes and column widths are left out.                     *)
(***************************************************************************)
NoFill == <<>>

NoTable == <<>>

BlankCell == [text |-> "", fill |-> NoFill]

cols == 6

headers == <<"Campaign Type", "KPI Name", "Benchmark", "Actual", "Direction", "Status">>

\* mutant: the presentation object is shared by all calls and keeps its slides
Presentation_shared ==
    IF renders = <<>> THEN [slides |-> <<>>] ELSE renders[Len(renders)].prs

\* Presentation(), line 51
Presentation == [slides |-> <<>>]

\* mutant: the table always has room for at least one data row
table_rows_min_one(df) == IF Len(df.index) = 0 THEN 2 ELSE Len(df.index) + 1

\* rows = len(df) + 1, line 81
table_rows(df) == Len(df.index) + 1

\* slide.shapes.add_table(rows, cols, ...).table, line 84
add_table(rows, ncols) == [r \in 0..(rows - 1) |-> [c \in 0..(ncols - 1) |-> BlankCell]]

\* the header loop, lines 95-103
write_header(table) ==
    [table EXCEPT ![0] = [c \in 0..(cols - 1) |->
        [text |-> headers[c + 1], fill |-> RGBColor(51, 51, 51)]]]

\* mutant: actual and benchmark are handed over in the wrong order
row_status_swapped(row) == calculate_status(row.Benchmark, row.Actual, row.Direction)

\* line 113
row_status(row) == calculate_status(row.Actual, row.Benchmark, row.Direction)

\* one pass of the data loop for the pair (i, row) of df.iterrows(), lines 107-119;
\* the caller has checked that row i + 1 exists
write_data_row(table, i, row, dtypes) ==
    LET status == row_status(row) IN
    [table EXCEPT ![i + 1] =
        [c \in 0..(cols - 1) |->
            CASE c = 0 -> [text |-> str_text(row.Campaign_Type), fill |-> NoFill]
              [] c = 1 -> [text |-> str_text(row.KPI_Name), fill |-> NoFill]
              [] c = 2 -> [text |-> str_number(row.Benchmark, dtypes.Benchmark),
                           fill |-> NoFill]
              [] c = 3 -> [text |-> str_number(row.Actual, dtypes.Actual),
                           fill |-> NoFill]
              [] c = 4 -> [text |-> str_text(row.Direction), fill |-> NoFill]
              [] c = 5 -> [text |-> status, fill |-> get_status_color(status)]]]

\* for i, row in df.iterrows(), lines 106-125, from the k-th pair on.
\* table.cell(i+1, j) raises IndexError when the table has no row i + 1.
RECURSIVE write_data_rows(_, _, _)
write_data_rows(table, df, k) ==
    IF k > Len(df.index) THEN [table |-> table, raised |-> FALSE]
    ELSE IF (df.index[k] + 1) \notin DOMAIN table THEN [table |-> table, raised |-> TRUE]
    ELSE write_data_rows(write_data_row(table, df.index[k], df.rows[k], df.dtypes),
                         df, k + 1)

title_slide(name) ==
    [table    |-> NoTable,
     title    |-> "Marketing KPI Dashboard - " \o name \o " Benchmarks",
     subtitle |-> "Status view across Campaign Types and KPIs"]

table_slide(table) == [table |-> table, title |-> "Dashboard Status", subtitle |-> ""]

\* the call's outcome: raised tells whether it ended in an exception, prs is the
\* presentation returned (no slides when it raised)
create_powerpoint(df, name) ==
    LET prs    == Presentation
        filled == write_data_rows(write_header(add_table(table_rows(df), cols)), df, 1)
    IN  IF filled.raised
        THEN [prs |-> [slides |-> <<>>], raised |-> TRUE]
        ELSE [prs |-> [slides |-> prs.slides \o <<title_slide(name),
                                                  table_slide(filled.table)>>],
              raised |-> FALSE]

(***************************************************************************)
(* main(), upload tab, lines 151-206.                                      *)
(***************************************************************************)
required_cols == {"Campaign Type", "KPI Name", "Benchmark", "Actual", "Direction"}

NoFile == [rows |-> <<>>, present |-> FALSE, columns |-> {}]

NoPrs == [slides |-> <<>>]

\* pd.read_excel(uploaded_file), line 157
read_excel(file) ==
    [rows   |-> file.rows,
     index  |-> RangeIndex(Len(file.rows)),
     dtypes |-> [Benchmark |-> column_dtype([k \in DOMAIN file.rows |->
                                                 file.rows[k].Benchmark]),
                 Actual    |-> column_dtype([k \in DOMAIN file.rows |->
                                                 file.rows[k].Actual])]]

\* df[required_cols].dropna(subset=['Campaign Type', 'KPI Name']), line 163:
\* the surviving rows keep their index labels
dropna(df) ==
    LET pairs == [k \in DOMAIN df.rows |-> [row |-> df.rows[k], label |-> df.index[k]]]
        kept  == SelectSeq(pairs, LAMBDA p : ~pd_isna_text(p.row.Campaign_Type)
                                             /\ ~pd_isna_text(p.row.KPI_Name))
    IN  [rows   |-> [k \in DOMAIN kept |-> kept[k].row],
         index  |-> [k \in DOMAIN kept |-> kept[k].label],
         dtypes |-> df.dtypes]

\* df_clean with its Status column, lines 163-175 (on a frame without rows the
\* apply yields an empty column and the assignment succeeds)
df_clean_of(file) == add_status_column(dropna(read_excel(file)))

\* what the upload tab displays in a script run; pressed tells whether this run
\* was triggered by its Generate PowerPoint button
tab_upload(file, name, pressed) ==
    IF ~file.present THEN [prs |-> NoPrs, message |-> "", found |-> 0]
    ELSE IF ~(\A col \in required_cols : col \in file.columns)
    THEN [prs |-> NoPrs, message |-> "missing_columns", found |-> 0]
    ELSE LET df_clean == df_clean_of(file)
             made     == create_powerpoint(df_clean, name)
         IN  IF ~pressed
             THEN [prs |-> NoPrs, message |-> "uploaded", found |-> Len(df_clean.index)]
             ELSE IF made.raised
             THEN [prs |-> NoPrs, message |-> "error_reading_file", found |-> Len(df_clean.index)]
             ELSE [prs |-> made.prs, message |-> "generated", found |-> Len(df_clean.index)]

(***************************************************************************)
(* main(), manual-entry tab, lines 208-274.                                *)
(***************************************************************************)
\* mutant: the KPI name is not examined
form_submit_unchecked(data, new_kpi) == Append(data, new_kpi)

\* lines 230-242: the list after the form was submitted with new_kpi
form_submit(data, new_kpi) ==
    IF new_kpi.KPI_Name # "" THEN Append(data, new_kpi) ELSE data

\* pd.DataFrame(st.session_state.manual_data), line 247; st.number_input with
\* value=0.0 yields floats
DataFrame(data) ==
    [rows   |-> data,
     index  |-> RangeIndex(Len(data)),
     dtypes |-> [Benchmark |-> "float64", Actual |-> "float64"]]

df_manual_of(data) == add_status_column(DataFrame(data))

\* what the manual tab displays in a script run
tab_manual(data, name, button, submitted_name) ==
    LET made == create_powerpoint(df_manual_of(data), name)
        note == CASE button = "add" /\ submitted_name # "" -> "added"
                  [] button = "add" /\ submitted_name = ""  -> "rejected"
                  [] OTHER -> ""
    IN  IF data = <<>> THEN [prs |-> NoPrs, message |-> note, info |-> TRUE]
        ELSE IF button # "generate" THEN [prs |-> NoPrs, message |-> note, info |-> FALSE]
        ELSE IF made.raised THEN [prs |-> NoPrs, message |-> "exception", info |-> FALSE]
        ELSE [prs |-> made.prs, message |-> "generated", info |-> FALSE]

(***************************************************************************)
(* The inputs the model draws from.                                        *)
(***************************************************************************)
Numbers == (-MaxVal)..MaxVal

Directions == {"HigherIsBetter", "LowerIsBetter"}

KPIRecord(ct, kpi, b, a, d) ==
    [Campaign_Type |-> ct, KPI_Name |-> kpi, Benchmark |-> b, Actual |-> a,
     Direction |-> d]

\* rows of an uploaded sheet: one of each status, the two kinds of Gray, and rows
\* lacking Campaign Type or KPI Name
SheetRows ==
    {KPIRecord("Events", "Leads", 10, 12, "HigherIsBetter"),
     KPIRecord("Social", "CTR", 10, 9, "HigherIsBetter"),
     KPIRecord("Social", "CPC", 10, 12, "LowerIsBetter"),
     KPIRecord("Events", "Cost", NaN, 5, "LowerIsBetter"),
     KPIRecord("Other", "Reach", 10, 11, "Unknown"),
     KPIRecord(NaNText, "CTR", 10, 9, "HigherIsBetter"),
     KPIRecord("Events", NaNText, 10, 12, "LowerIsBetter")}

SheetColumns ==
    {required_cols, required_cols \ {"Direction"}, required_cols \cup {"Notes"}}

\* values of the Add KPI form
Forms ==
    {KPIRecord("Events", kpi, 10, a, "HigherIsBetter") : kpi \in {"", "CTR"}, a \in {9, 12}}

NoForm == KPIRecord("", "", 0, 0, "")

CompanyNames == {"Your Company", "Acme"}

(***************************************************************************)
(* States and actions.  Every action is one run of the script: it handles  *)
(* the widget that triggered it and redraws both tabs.                     *)
(***************************************************************************)
Display(file, data, name, button, submitted_name) ==
    [tab1 |-> tab_upload(file, name, button = "generate_upload"),
     tab2 |-> tab_manual(data, name, button, submitted_name)]

Init ==
    /\ args = [actual |-> 0, benchmark |-> 0, direction |-> "HigherIsBetter"]
    /\ result = "pending"
    /\ uploaded_file = NoFile
    /\ company_name = "Your Company"
    /\ manual_data = <<>>
    /\ log = <<>>
    /\ shown = Display(NoFile, <<>>, "Your Company", "none", "")
    /\ renders = <<>>

session == <<uploaded_file, company_name, manual_data, log, shown, renders>>

\* the sidebar text input, line 146
SetCompanyName(name) ==
    /\ name # company_name
    /\ company_name' = name
    /\ shown' = Display(uploaded_file, manual_data, name, "none", "")
    /\ UNCHANGED <<args, result, uploaded_file, manual_data, log, renders>>

\* a file is chosen in the uploader, lines 153-188 (a file is replaced by removing
\* it and choosing another)
UploadFile(file) ==
    /\ ~uploaded_file.present
    /\ file.present
    /\ uploaded_file' = file
    /\ shown' = Display(file, manual_data, company_name, "none", "")
    /\ UNCHANGED <<args, result, company_name, manual_data, log, renders>>

RemoveFile ==
    /\ uploaded_file.present
    /\ uploaded_file' = NoFile
    /\ shown' = Display(NoFile, manual_data, company_name, "none", "")
    /\ UNCHANGED <<args, result, company_name, manual_data, log, renders>>

\* the upload tab's Generate PowerPoint button, lines 191-199 and 205-206; the
\* button is drawn only when the file has the required columns
GenerateUpload ==
    /\ uploaded_file.present
    /\ \A col \in required_cols : col \in uploaded_file.columns
    /\ shown' = Display(uploaded_file, manual_data, company_name, "generate_upload", "")
    /\ UNCHANGED <<args, result, uploaded_file, company_name, manual_data, log, renders>>

\* the Add KPI form is submitted, lines 230-242
AddKPI(new_kpi) ==
    /\ Len(log) < MaxEvents
    /\ manual_data' = form_submit(manual_data, new_kpi)
    /\ log' = Append(log, [button |-> "add", form |-> new_kpi])
    /\ shown' = Display(uploaded_file, manual_data', company_name, "add", new_kpi.KPI_Name)
    /\ UNCHANGED <<args, result, uploaded_file, company_name, renders>>

\* Clear All Data, lines 259-261; the button is drawn only when the list is not empty
ClearAllData ==
    /\ Len(log) < MaxEvents
    /\ manual_data # <<>>
    /\ manual_data' = <<>>
    /\ log' = Append(log, [button |-> "clear", form |-> NoForm])
    /\ shown' = Display(uploaded_file, <<>>, company_name, "none", "")
    /\ UNCHANGED <<args, result, uploaded_file, company_name, renders>>

\* the manual tab's Generate PowerPoint button, lines 264-272
GenerateManual ==
    /\ manual_data # <<>>
    /\ LET df   == df_manual_of(manual_data)
           made == create_powerpoint(df, company_name)
           call == [company_name |-> company_name, df |-> df, prs |-> made.prs,
                    raised |-> made.raised, at |-> Len(log)]
           all  == Append(renders, call)
       IN  renders' = IF Len(all) > MaxRenders THEN Tail(all) ELSE all
    /\ shown' = Display(uploaded_file, manual_data, company_name, "generate", "")
    /\ UNCHANGED <<args, result, uploaded_file, company_name, manual_data, log>>

NextUpload ==
    \/ \E name \in CompanyNames : SetCompanyName(name)
    \/ \E n \in 0..MaxSheetRows, columns \in SheetColumns :
         \E rows \in [1..n -> SheetRows] :
            UploadFile([rows |-> rows, present |-> TRUE, columns |-> columns])
    \/ RemoveFile
    \/ GenerateUpload

\* the company name is chosen before the first manual-entry event
NextManual ==
    \/ \E name \in CompanyNames : log = <<>> /\ renders = <<>> /\ SetCompanyName(name)
    \/ \E new_kpi \in Forms : AddKPI(new_kpi)
    \/ ClearAllData
    \/ GenerateManual

Next == NextUpload \/ NextManual

\* the upload path
SpecUpload == Init /\ [][NextUpload]_vars

\* the manual-entry path
SpecManual == Init /\ [][NextManual]_vars

\* both tabs
Spec == Init /\ [][Next]_vars

(***************************************************************************)
(* calculate_status applied to every input of the bounded ranges.          *)
(***************************************************************************)
InitClassify ==
    /\ args \in [actual : Numbers \cup {NaN}, benchmark : Numbers \cup {NaN},
                 direction : Directions \cup {"Unknown", NaNText}]
    /\ result = "pending"
    /\ uploaded_file = NoFile
    /\ company_name = "Your Company"
    /\ manual_data = <<>>
    /\ log = <<>>
    /\ shown = Display(NoFile, <<>>, "Your Company", "none", "")
    /\ renders = <<>>

Classify ==
    /\ result = "pending"
    /\ result' = calculate_status(args.actual, args.benchmark, args.direction)
    /\ UNCHANGED <<args, session>>

NextClassify == Classify

SpecClassify == InitClassify /\ [][NextClassify]_vars

(***************************************************************************)
(* Properties of calculate_status, checked under SpecClassify.             *)
(***************************************************************************)
Classified == result # "pending"

Numeric == ~pd_isna(args.actual) /\ ~pd_isna(args.benchmark)

\* C1: for numeric actual and benchmark and a recognized direction the result is
\* Green, Yellow or Red exactly as the rule says: HigherIsBetter gives Green when
\* actual >= benchmark, Yellow when benchmark*0.9 <= actual < benchmark, Red
\* otherwise; LowerIsBetter gives Green when actual <= benchmark, Yellow when
\* benchmark < actual <= benchmark*1.1, Red otherwise; the three cases exclude
\* each other and cover every pair.
C1_StatusFollowsRule ==
    (Classified /\ Numeric /\ args.direction \in Directions) =>
        LET a == args.actual
            b == args.benchmark
            green  == IF args.direction = "HigherIsBetter" THEN a >= b ELSE a <= b
            yellow == IF args.direction = "HigherIsBetter"
                      THEN 9 * b <= 10 * a /\ a < b
                      ELSE b < a /\ 10 * a <= 11 * b
        IN  /\ result \in {"Green", "Yellow", "Red"}
            /\ (result = "Green") <=> green
            /\ (result = "Yellow") <=> yellow
            /\ (result = "Red") <=> (~green /\ ~yellow)
            /\ ~(green /\ yellow)

C1_Witness ==
    /\ result = "Yellow"
    /\ args.direction = "LowerIsBetter"
    /\ args.benchmark = 20
    /\ args.actual = 22

\* C2: an absent actual or benchmark gives Gray whatever the direction, and an
\* unrecognized direction gives Gray for any numbers; the result is always one of
\* the four statuses.
C2_IndeterminateIsGray ==
    Classified =>
        /\ result \in {"Green", "Yellow", "Red", "Gray"}
        /\ (pd_isna(args.actual) \/ pd_isna(args.benchmark)) => result = "Gray"
        /\ args.direction \notin Directions => result = "Gray"

C2_Witness ==
    /\ result = "Gray"
    /\ pd_isna(args.actual)
    /\ ~pd_isna(args.benchmark)
    /\ args.direction = "HigherIsBetter"

\* C6: with benchmark 0 and HigherIsBetter every actual >= 0 is Green and every
\* actual < 0 is Red.
C6_ZeroBenchmarkHasNoYellow ==
    (Classified /\ Numeric /\ args.benchmark = 0 /\ args.direction = "HigherIsBetter") =>
        result = (IF args.actual >= 0 THEN "Green" ELSE "Red")

C6_Witness ==
    /\ result = "Red"
    /\ args.benchmark = 0
    /\ args.actual = -1
    /\ args.direction = "HigherIsBetter"

\* C10: for a benchmark <= 0 and either recognized direction the result is Green
\* or Red, never Yellow.
C10_YellowNeedsPositiveBenchmark ==
    (Classified /\ Numeric /\ args.benchmark <= 0 /\ args.direction \in Directions) =>
        result \in {"Green", "Red"}

C10_Witness ==
    /\ result = "Red"
    /\ args.direction = "HigherIsBetter"
    /\ args.benchmark = -10
    /\ args.actual = -11

(***************************************************************************)
(* Properties of the upload path, checked under SpecUpload.                *)
(***************************************************************************)
\* this run was triggered by the upload tab's Generate PowerPoint button
UploadGenerated == shown.tab1.message \in {"generated", "error_reading_file"}

\* the table of a presentation that was returned
TableOf(prs) == prs.slides[Len(prs.slides)].table

\* data row r of the table shows the five fields of the record
Carries(table, r, rec, dtypes) ==
    /\ table[r][0].text = rec.Campaign_Type
    /\ table[r][1].text = rec.KPI_Name
    /\ table[r][2].text = str_number(rec.Benchmark, dtypes.Benchmark)
    /\ table[r][3].text = str_number(rec.Actual, dtypes.Actual)
    /\ table[r][4].text = str_text(rec.Direction)

\* C3: the frame handed to create_powerpoint yields a table with one data row per
\* record after the header, data row k carrying the k-th record.
C3_RowsFollowInput ==
    UploadGenerated =>
        LET df == df_clean_of(uploaded_file) IN
        /\ shown.tab1.message = "generated"
        /\ DOMAIN TableOf(shown.tab1.prs) = 0..Len(df.rows)
        /\ \A k \in 1..Len(df.rows) :
               Carries(TableOf(shown.tab1.prs), k, df.rows[k], df.dtypes)

\* C4: in every report the Status cell of a data row shows calculate_status of
\* that row's record and is filled with the colour of that status.
C4_StatusCellRecomputed ==
    shown.tab1.message = "generated" =>
        LET table == TableOf(shown.tab1.prs)
            rows  == dropna(read_excel(uploaded_file)).rows
        IN  \A r \in DOMAIN table \ {0} :
                /\ r \in DOMAIN rows
                /\ table[r][5].text =
                       calculate_status(rows[r].Actual, rows[r].Benchmark, rows[r].Direction)
                /\ table[r][5].fill =
                       (CASE table[r][5].text = "Green"  -> <<34, 139, 34>>
                          [] table[r][5].text = "Yellow" -> <<255, 165, 0>>
                          [] table[r][5].text = "Red"    -> <<220, 20, 60>>
                          [] table[r][5].text = "Gray"   -> <<128, 128, 128>>
                          [] OTHER -> <<>>)

C4_Witness ==
    /\ shown.tab1.message = "generated"
    /\ DOMAIN TableOf(shown.tab1.prs) = 0..3
    /\ TableOf(shown.tab1.prs)[1][5].text = "Yellow"
    /\ TableOf(shown.tab1.prs)[2][5].text = "Gray"
    /\ TableOf(shown.tab1.prs)[3][5].text = "Red"

\* C7: an empty frame yields, without error, a table that is the six-column
\* header row and nothing else.
C7_EmptyInputHeaderOnly ==
    (UploadGenerated /\ Len(df_clean_of(uploaded_file).rows) = 0) =>
        /\ shown.tab1.message = "generated"
        /\ DOMAIN TableOf(shown.tab1.prs) = {0}
        /\ DOMAIN TableOf(shown.tab1.prs)[0] = 0..5
        /\ TableOf(shown.tab1.prs)[0][0].text = "Campaign Type"
        /\ TableOf(shown.tab1.prs)[0][1].text = "KPI Name"
        /\ TableOf(shown.tab1.prs)[0][2].text = "Benchmark"
        /\ TableOf(shown.tab1.prs)[0][3].text = "Actual"
        /\ TableOf(shown.tab1.prs)[0][4].text = "Direction"
        /\ TableOf(shown.tab1.prs)[0][5].text = "Status"

C7_Witness ==
    /\ shown.tab1.message = "generated"
    /\ shown.tab1.found = 0
    /\ DOMAIN TableOf(shown.tab1.prs) = {0}

\* the rows of the sheet that have both Campaign Type and KPI Name
Survivors(rows) ==
    SelectSeq(rows, LAMBDA rec : rec.Campaign_Type # NaNText /\ rec.KPI_Name # NaNText)

\* C9: for a sheet with the five required columns, Generate PowerPoint completes
\* without error whichever rows were dropped, and the table has exactly one data
\* row per surviving record, in the survivors' order, none of them blank.
C9_UploadReportComplete ==
    UploadGenerated =>
        LET kept == Survivors(uploaded_file.rows) IN
        /\ shown.tab1.message = "generated"
        /\ Cardinality(DOMAIN TableOf(shown.tab1.prs)) = Len(kept) + 1
        /\ \A k \in 1..Len(kept) :
               /\ TableOf(shown.tab1.prs)[k][0].text = kept[k].Campaign_Type
               /\ TableOf(shown.tab1.prs)[k][1].text = kept[k].KPI_Name
               /\ TableOf(shown.tab1.prs)[k][5].text # ""

(***************************************************************************)
(* Properties of the manual-entry path, checked under SpecManual.          *)
(***************************************************************************)
\* the position of the last Clear All Data in the log, 0 when there is none
LastClear ==
    LET clears == {k \in DOMAIN log : log[k].button = "clear"}
    IN  IF clears = {} THEN 0 ELSE CHOOSE k \in clears : \A j \in clears : j <= k

\* the submissions with a KPI name made since the last Clear, in order
AcceptedSinceClear ==
    LET since == SubSeq(log, LastClear + 1, Len(log))
        named == SelectSeq(since, LAMBDA e : e.button = "add" /\ e.form.KPI_Name # "")
    IN  [k \in DOMAIN named |-> named[k].form]

\* C5: manual_data is, in submission order, exactly the submissions with a
\* non-empty KPI name made since the last Clear All Data.
C5_ManualDataIsAcceptedSubmissions == manual_data = AcceptedSinceClear

C5_Witness ==
    /\ Len(log) = 4
    /\ log[1].button = "add" /\ log[1].form.KPI_Name # ""
    /\ log[2].button = "clear"
    /\ log[3].button = "add" /\ log[3].form.KPI_Name = ""
    /\ log[4].button = "add" /\ log[4].form.KPI_Name # ""
    /\ manual_data = <<log[4].form>>

====
